---------------------------- MODULE Spec2Model ----------------------------
(***************************************************************************)
(* HK Screener v4 (src/crypto_screener.py): one batch run of main() as a   *)
(* sequential state machine over the persisted history file, followed by   *)
(* further runs.  Pure helpers (merge_market_data, categorize_coin) are    *)
(* operators; each also has a small specification that enumerates its      *)
(* inputs.                                                                 *)
(*                                                                         *)
(* Conventions.  A nullable Python value is <<>> (None) or <<v>>.  Money   *)
(* is in whole dollars, percentages in tenths of a percent, prices and     *)
(* lows in whole units.  A symbol is the sequence of its characters.       *)
(* Pass-through display fields (name, quote volume) are not modelled.      *)
(***************************************************************************)
EXTENDS Integers, Sequences, FiniteSets, TLC

VARIABLES
    pc,                     \* position of main(): see the actions below
    history,                \* coins_history.json on disk
    previous_coins,         \* main: previous_coins (what load_coin_history returned)
    usdt_perps,             \* main: usdt_perps, an insertion-ordered dict as a sequence
    cg_data,                \* main: cg_data    (symbol -> reference record)
    cmc_data,               \* main: cmc_data   (symbol -> reference record)
    merged_data,            \* main: merged_data
    all_coins_to_process,   \* main: all_coins_to_process (category order, then feed order)
    idx,                    \* main: loop index i of the historical-low loop
    attempt,                \* fetch_q4_low: attempt
    requests,               \* requests.get calls issued by the current (or last) fetch_q4_low
    last_response,          \* what the latest of those calls met
    returned,               \* <<>> while fetch_q4_low runs, <<its return value>> after
    current_category_coins, \* main: current_category_coins
    new_coins_by_category,  \* main: new_coins_by_category
    final_category_data,    \* main: final_category_data
    nwrites,                \* times this run opened the history file for writing
    prevSaved,              \* the run before this one completed and its save succeeded
    prev_current,           \* that run's current_category_coins
    market_cap,             \* categorize_coin: argument
    cat_id,                 \* categorize_coin: result
    arg,                    \* the arguments of the helper a helper specification applies
    result                  \* what that helper returned

vars == <<pc, history, previous_coins, usdt_perps, cg_data, cmc_data, merged_data,
          all_coins_to_process, idx, attempt, requests, last_response, returned,
          current_category_coins, new_coins_by_category, final_category_data,
          nwrites, prevSaved, prev_current, market_cap, cat_id, arg, result>>

---------------------------------------------------------------------------
(* Nullable values *)
None == <<>>
Some(v) == <<v>>
IsNone(x) == x = <<>>
\* Python's `x or 0` for a nullable number
OrZero(x) == IF IsNone(x) THEN 0 ELSE x[1]
\* Python truthiness of a nullable number
Truthy(x) == ~IsNone(x) /\ x[1] # 0

\* the empty dict
EmptyDict == <<>>
\* dict.get(k, default)
Get(d, k, default) == IF k \in DOMAIN d THEN d[k] ELSE default

---------------------------------------------------------------------------
(* MCAP_CATEGORIES *)
Inf == <<>>
M == 1000000

MCAP_CATEGORIES ==
    << [id |-> "micro", label |-> "$25M-$50M", min |-> 25 * M,   max |-> Some(50 * M)],
       [id |-> "small", label |-> "$50M-$100M", min |-> 50 * M,   max |-> Some(100 * M)],
       [id |-> "low", label |-> "$100M-$250M", min |-> 100 * M,  max |-> Some(250 * M)],
       [id |-> "midlow", label |-> "$250M-$500M", min |-> 250 * M,  max |-> Some(500 * M)],
       [id |-> "mid", label |-> "$500M-$750M", min |-> 500 * M,  max |-> Some(750 * M)],
       [id |-> "midhigh", label |-> "$750M-$1B", min |-> 750 * M,  max |-> Some(1000 * M)],
       [id |-> "high", label |-> "$1B-$1.5B", min |-> 1000 * M, max |-> Some(1500 * M)],
       [id |-> "mega", label |-> "$1.5B+", min |-> 1500 * M, max |-> Inf] >>

CatIds == {MCAP_CATEGORIES[k].id : k \in DOMAIN MCAP_CATEGORIES}
NoCat == "None"

\* a plausible slip: closed below, open above
InRangeMutant(cat, mc) == cat.min <= mc /\ (cat.max = Inf \/ mc < cat.max[1])

\* cat["min"] < market_cap <= cat["max"], max possibly float('inf')
InRange(cat, mc) == cat.min < mc /\ (cat.max = Inf \/ mc <= cat.max[1])

\* categorize_coin: the first category of the list whose range holds mc, else None
categorize_coin(mc) ==
    LET hits == {k \in DOMAIN MCAP_CATEGORIES : InRange(MCAP_CATEGORIES[k], mc)}
    IN  IF hits = {} THEN NoCat
        ELSE MCAP_CATEGORIES[CHOOSE k \in hits : \A j \in hits : k <= j].id

---------------------------------------------------------------------------
(* Strings as character sequences *)
USDT == <<"U", "S", "D", "T">>
PERP == <<"_", "P", "E", "R", "P">>
K1000 == <<"1", "0", "0", "0">>

\* str.endswith / str.startswith
EndsWith(s, suf) ==
    Len(s) >= Len(suf) /\ SubSeq(s, Len(s) - Len(suf) + 1, Len(s)) = suf
StartsWith(s, pre) == Len(s) >= Len(pre) /\ SubSeq(s, 1, Len(pre)) = pre

\* str.replace(old, ""): every non-overlapping occurrence, left to right
RECURSIVE Remove(_, _)
Remove(s, old) ==
    IF Len(s) = 0 THEN s
    ELSE IF StartsWith(s, old) THEN Remove(SubSeq(s, Len(old) + 1, Len(s)), old)
    ELSE <<Head(s)>> \o Remove(Tail(s), old)

\* str.upper() on the alphabet in use
UpperChar(c) == CASE c = "f" -> "F" [] c = "b" -> "B" [] OTHER -> c
Upper(s) == [k \in DOMAIN s |-> UpperChar(s[k])]

\* a plausible slip: the prefix is not stripped
LookupSymbolMutant(base_symbol) == base_symbol

\* main, lines 319-321
LookupSymbol(base_symbol) ==
    IF StartsWith(base_symbol, K1000)
    THEN SubSeq(base_symbol, 5, Len(base_symbol))
    ELSE base_symbol

---------------------------------------------------------------------------
(* Ordered dicts as sequences of records with a "symbol" key *)
Keys(od) == {od[k].symbol : k \in DOMAIN od}
IndexOf(od, sym) == CHOOSE k \in DOMAIN od : od[k].symbol = sym
\* od[sym] = rec: overwrite in place, or append
Put(od, rec) ==
    IF rec.symbol \in Keys(od)
    THEN [od EXCEPT ![IndexOf(od, rec.symbol)] = rec]
    ELSE Append(od, rec)

\* main, lines 312-329: the USDT-M filter and the usdt_perps dict
RECURSIVE BuildPerps(_, _)
BuildPerps(binance_data, acc) ==
    IF Len(binance_data) = 0 THEN acc
    ELSE LET ticker == Head(binance_data)
             symbol == ticker.symbol
             base_symbol == Remove(symbol, USDT)
         IN  IF EndsWith(symbol, USDT) /\ ~EndsWith(symbol, PERP)
             THEN BuildPerps(Tail(binance_data),
                     Put(acc, [symbol |-> base_symbol,
                               lookup_symbol |-> LookupSymbol(base_symbol),
                               price |-> ticker.lastPrice,
                               change_24h_binance |-> ticker.priceChangePercent]))
             ELSE BuildPerps(Tail(binance_data), acc)

---------------------------------------------------------------------------
(* Reference records and the provider merge *)
Fields == {"fdv", "market_cap", "price_change_24h", "price_change_30d"}

\* a plausible slip: the base record is returned as it is
OrFillNothing(base, other) == base

\* a plausible slip: last write wins
OrFillMutant(base, other) ==
    [f \in Fields |-> IF ~IsNone(other[f]) THEN other[f] ELSE base[f]]

\* merge_market_data, lines 273-280: fill a field of the base record from the
\* other source only when the base holds None and the other does not
OrFill(base, other) ==
    [f \in Fields |-> IF IsNone(base[f]) /\ ~IsNone(other[f]) THEN other[f] ELSE base[f]]

\* merge_market_data
merge_market_data(cg, cmc) ==
    [s \in DOMAIN cg \cup DOMAIN cmc |->
        IF s \notin DOMAIN cg THEN cmc[s]
        ELSE IF s \notin DOMAIN cmc THEN cg[s]
        ELSE OrFill(cg[s], cmc[s])]

\* a plausible slip: a later record of equal market cap replaces the earlier one
KeepExistingMutant(mcap, existing_mcap) == mcap < existing_mcap

\* lines 181 and 243: `if market_cap <= existing_mcap: continue`
KeepExisting(mcap, existing_mcap) == mcap <= existing_mcap

\* fetch_coingecko_data lines 173-190 / fetch_coinmarketcap_data lines 235-252:
\* symbol-keyed dict of a listing, a later record replacing an earlier one of the
\* same upper-cased symbol only when its market cap is strictly higher
RECURSIVE BySymbol(_, _)
BySymbol(coins, acc) ==
    IF Len(coins) = 0 THEN acc
    ELSE LET coin == Head(coins)
             symbol == Upper(coin.symbol)
             mcap == OrZero(coin.rec.market_cap)
         IN  IF symbol \in DOMAIN acc /\ KeepExisting(mcap, OrZero(acc[symbol].market_cap))
             THEN BySymbol(Tail(coins), acc)
             ELSE BySymbol(Tail(coins),
                     [s \in DOMAIN acc \cup {symbol} |->
                         IF s = symbol THEN coin.rec ELSE acc[s]])

---------------------------------------------------------------------------
(* The history file: load_coin_history / save_coin_history *)

\* lexicographic order of symbols, by character code
CharRank(c) ==
    CASE c = "0" -> 0 [] c = "1" -> 1 [] c = "B" -> 2 [] c = "F" -> 3 [] OTHER -> 4

RECURSIVE StrLess(_, _)
StrLess(a, b) ==
    IF Len(b) = 0 THEN FALSE
    ELSE IF Len(a) = 0 THEN TRUE
    ELSE IF CharRank(Head(a)) # CharRank(Head(b)) THEN CharRank(Head(a)) < CharRank(Head(b))
    ELSE StrLess(Tail(a), Tail(b))

\* sorted(list(coins))
RECURSIVE Sorted(_)
Sorted(coins) ==
    IF coins = {} THEN <<>>
    ELSE LET m == CHOOSE x \in coins : \A y \in coins \ {x} : StrLess(x, y)
         IN  <<m>> \o Sorted(coins \ {m})

\* set(coins)
ToSet(list) == {list[k] : k \in DOMAIN list}

NoFile == [kind |-> "absent", categories |-> EmptyDict, coins |-> <<>>]
Corrupt == [kind |-> "corrupt", categories |-> EmptyDict, coins |-> <<>>]
LegacyFile(list) == [kind |-> "coins", categories |-> EmptyDict, coins |-> list]

\* load_coin_history: {} when the file is absent, when reading or parsing it
\* raises, and when it holds neither key
load_coin_history(file) ==
    CASE file.kind = "categories" ->
            [cat \in DOMAIN file.categories |-> ToSet(file.categories[cat])]
      [] file.kind = "coins" -> [cat \in {"all"} |-> ToSet(file.coins)]
      [] OTHER -> EmptyDict

\* a plausible slip: the run's sets are added to what the file held
SavedFileMutant(old, category_coins) ==
    [kind |-> "categories",
     categories |-> [cat \in DOMAIN category_coins |->
         Sorted(category_coins[cat] \cup
                Get(load_coin_history(old), cat, {}))],
     coins |-> <<>>]

\* save_coin_history, lines 62-67: the file after a write that went through
SavedFile(old, category_coins) ==
    [kind |-> "categories",
     categories |-> [cat \in DOMAIN category_coins |-> Sorted(category_coins[cat])],
     coins |-> <<>>]

---------------------------------------------------------------------------
(* Historical low: fetch_q4_low *)
retries == 3

\* min(lows)
MinLow(data) ==
    CHOOSE v \in {data[k].low : k \in DOMAIN data} :
        \A k \in DOMAIN data : v <= data[k].low

\* a plausible slip: the last candle holding the minimum
LowIdxMutant(data) ==
    CHOOSE k \in DOMAIN data :
        /\ data[k].low = MinLow(data)
        /\ \A j \in DOMAIN data : data[j].low = MinLow(data) => j <= k

\* lows.index(low_price): the first index holding it
LowIdx(data) ==
    CHOOSE k \in DOMAIN data :
        /\ data[k].low = MinLow(data)
        /\ \A j \in DOMAIN data : data[j].low = MinLow(data) => k <= j

\* lines 131-132: the calendar day (its number since the epoch) of a timestamp in ms
DateOf(low_timestamp) == (low_timestamp \div 1000) \div 86400

\* lines 124-134: (low_price, low_date) of a 200 response
ParseLow(data) ==
    IF Len(data) = 0 THEN [low_price |-> None, low_date |-> None]
    ELSE [low_price |-> Some(MinLow(data)),
          low_date |-> Some(DateOf(data[LowIdx(data)].openTime))]

\* a plausible slip: an unexpected status is retried like a 429
ReturnsAtOnceMutant(kind) == kind = "ok"

\* lines 118-134: the responses on which the function returns from inside the loop:
\* a status other than 200 and 429, and a 200 (empty or not)
ReturnsAtOnce(kind) == kind \in {"status", "ok"}

\* a plausible slip: one attempt too many
MoreAttemptsMutant(att) == att + 1 <= retries

\* line 115: `for attempt in range(retries)` has another iteration after attempt att
MoreAttempts(att) == att + 1 < retries

\* a plausible slip: the last attempt's exception is re-raised
CaughtMutant(kind, att) == kind # "exception" \/ att + 1 < retries

\* lines 116, 135: every Exception raised inside the loop body is caught
Caught(kind, att) == TRUE

\* a plausible slip: the test for a positive low is left out
WithLowMutant(coin, res) ==
    IF Truthy(res.low_price)
    THEN coin @@ [q4_low |-> res.low_price,
                  q4_low_date |-> res.low_date,
                  bounce_from_low |->
                      Some(((coin.price - res.low_price[1]) * 100) \div res.low_price[1])]
    ELSE coin @@ [q4_low |-> None, q4_low_date |-> None, bounce_from_low |-> None]

\* main, lines 399-407: the three fields set on the coin
WithLow(coin, res) ==
    IF Truthy(res.low_price) /\ res.low_price[1] > 0
    THEN coin @@ [q4_low |-> res.low_price,
                  q4_low_date |-> res.low_date,
                  bounce_from_low |->
                      Some(((coin.price - res.low_price[1]) * 100) \div res.low_price[1])]
    ELSE coin @@ [q4_low |-> None, q4_low_date |-> None, bounce_from_low |-> None]

---------------------------------------------------------------------------
(* Tiering: main, lines 344-385 *)

\* a plausible slip: the reference value is taken whenever there is one
Effective24hMutant(change_24h_binance, market_info) ==
    IF Truthy(market_info.price_change_24h)
    THEN market_info.price_change_24h[1]
    ELSE change_24h_binance

\* lines 354-356 and `change_24h or 0` of line 364
Effective24h(change_24h_binance, market_info) ==
    IF change_24h_binance = 0 /\ Truthy(market_info.price_change_24h)
    THEN market_info.price_change_24h[1]
    ELSE change_24h_binance

\* lines 351-366
CoinData(binance_info, market_info) ==
    [symbol |-> binance_info.symbol,
     price |-> binance_info.price,
     market_cap_m |-> OrZero(market_info.market_cap) \div M,
     fdv_m |-> OrZero(market_info.fdv) \div M,
     change_24h |-> Effective24h(binance_info.change_24h_binance, market_info),
     change_30d |-> OrZero(market_info.price_change_30d)]

\* lines 346-371: the coins appended to category_coins[cat], in feed order
RECURSIVE Bucket(_, _, _)
Bucket(perps, merged, cat) ==
    IF Len(perps) = 0 THEN <<>>
    ELSE LET binance_info == Head(perps)
             rest == Bucket(Tail(perps), merged, cat)
         IN  IF binance_info.lookup_symbol \in DOMAIN merged
                /\ categorize_coin(OrZero(merged[binance_info.lookup_symbol].market_cap)) = cat
             THEN <<CoinData(binance_info, merged[binance_info.lookup_symbol])>> \o rest
             ELSE rest

category_coins(perps, merged) ==
    [cat \in CatIds |-> Bucket(perps, merged, cat)]

\* lines 381-385: the buckets flattened in category order, each coin tagged
RECURSIVE Flatten(_, _)
Flatten(buckets, k) ==
    IF k > Len(MCAP_CATEGORIES) THEN <<>>
    ELSE LET cat == MCAP_CATEGORIES[k].id
         IN  [j \in DOMAIN buckets[cat] |-> buckets[cat][j] @@ [_category |-> cat]]
             \o Flatten(buckets, k + 1)

---------------------------------------------------------------------------
(* Novelty: main, lines 415-438 *)

\* a plausible slip: an empty history flags nothing
IsNewFirstRunGuard(previous, cat, symbol) ==
    previous # EmptyDict /\ symbol \notin Get(previous, cat, {})

\* a plausible slip: the legacy single-list key is consulted
IsNewLegacyKey(previous, cat, symbol) == symbol \notin Get(previous, "all", {})

\* a plausible slip: membership is tested against every tier of the history
IsNewAnyTier(previous, cat, symbol) ==
    \A c \in DOMAIN previous : symbol \notin previous[c]

\* lines 427-428
IsNew(previous, cat, symbol) == symbol \notin Get(previous, cat, {})

CoinsOf(coins, cat) == SelectSeq(coins, LAMBDA c : c._category = cat)

\* lines 420-429: the coin as it is appended to final_category_data
Finalized(coin, previous) ==
    [k \in DOMAIN coin \ {"_category"} |-> coin[k]]
        @@ [is_new |-> IsNew(previous, coin._category, coin.symbol)]

\* list.sort(key=change_30d, reverse=True): stable, descending
RECURSIVE InsertDesc(_, _)
InsertDesc(sorted, x) ==
    IF Len(sorted) = 0 THEN <<x>>
    ELSE IF Head(sorted).change_30d >= x.change_30d
         THEN <<Head(sorted)>> \o InsertDesc(Tail(sorted), x)
         ELSE <<x>> \o sorted

RECURSIVE SortDesc(_)
SortDesc(list) ==
    IF Len(list) = 0 THEN <<>>
    ELSE InsertDesc(SortDesc(SubSeq(list, 1, Len(list) - 1)), list[Len(list)])

CurrentCategoryCoins(coins) ==
    [cat \in CatIds |-> {coins[k].symbol : k \in {j \in DOMAIN coins : coins[j]._category = cat}}]

NewCoinsByCategory(coins, previous) ==
    [cat \in CatIds |->
        {coins[k].symbol : k \in {j \in DOMAIN coins :
            coins[j]._category = cat /\ IsNew(previous, cat, coins[j].symbol)}}]

FinalCategoryData(coins, previous) ==
    [cat \in CatIds |->
        LET mine == CoinsOf(coins, cat)
        IN  SortDesc([j \in DOMAIN mine |-> Finalized(mine[j], previous)])]

---------------------------------------------------------------------------
(* Inputs: what the upstreams may send, and the files a first run may find *)
MaxTickers == 2
MaxListing == 2
MaxCandles == 2

Sym1000F == <<"1", "0", "0", "0", "F">>
SymF == <<"F">>
SymB == <<"B">>

SeqsUpTo(S, n) == UNION {[1..k -> S] : k \in 0..n}

\* the exchange feed: two USDT-M contracts and one contract quoted in BTC
Ticker(sym, c) == [symbol |-> sym, lastPrice |-> 10, priceChangePercent |-> c]
Tickers ==
    { Ticker(Sym1000F \o USDT, 0), Ticker(Sym1000F \o USDT, 50), Ticker(SymB \o USDT, 50),
      Ticker(<<"F", "B", "T", "C">>, 50) }
Feeds == SeqsUpTo(Tickers, MaxTickers)

Rec(fdv, mcap, d1, d30) ==
    [fdv |-> fdv, market_cap |-> mcap, price_change_24h |-> d1, price_change_30d |-> d30]

RecLow == Rec(Some(200 * M), Some(150 * M), Some(32), Some(100))
RecNull == Rec(None, None, None, None)
RecFloor == Rec(Some(30 * M), Some(25 * M), Some(0), Some(-50))
RecMicro == Rec(None, Some(50 * M), None, Some(100))

\* what a provider may list: four records for F, two for B
Listed(f, b) ==
    {[symbol |-> f, rec |-> r] : r \in {RecLow, RecNull, RecFloor, RecMicro}}
    \cup {[symbol |-> b, rec |-> r] : r \in {RecLow, RecMicro}}

\* provider A lists lower-case symbols, provider B upper-case ones
ListingsA == SeqsUpTo(Listed(<<"f">>, <<"b">>), MaxListing)
ListingsB == SeqsUpTo(Listed(SymF, SymB), MaxListing)

\* klines payloads: daily candles in time order, candle t opening on day t
Candle(t, low) == [openTime |-> t * 86400000, low |-> low]
Payloads ==
    {data \in SeqsUpTo({Candle(t, low) : t \in 1..MaxCandles, low \in {-1, 0, 5}}, MaxCandles) :
        \A k \in DOMAIN data : data[k] = Candle(k, data[k].low)}

Responses ==
    {[kind |-> k, data |-> <<>>] : k \in {"429", "status", "exception"}}
    \cup {[kind |-> "ok", data |-> d] : d \in Payloads}

NoResponse == [kind |-> "none", candles |-> 0]

InitFiles == {NoFile, Corrupt, LegacyFile(<<SymB>>)}

EmptySets == [cat \in CatIds |-> {}]
EmptyLists == [cat \in CatIds |-> <<>>]

---------------------------------------------------------------------------
(* main() *)

\* the locals of a run that has not started
Fresh ==
    /\ previous_coins = EmptyDict
    /\ usdt_perps = <<>>
    /\ cg_data = EmptyDict
    /\ cmc_data = EmptyDict
    /\ merged_data = EmptyDict
    /\ all_coins_to_process = <<>>
    /\ idx = 1
    /\ attempt = 0
    /\ requests = 0
    /\ last_response = NoResponse
    /\ returned = <<>>
    /\ current_category_coins = EmptySets
    /\ new_coins_by_category = EmptySets
    /\ final_category_data = EmptyLists
    /\ nwrites = 0

Init ==
    /\ pc = "load"
    /\ history \in InitFiles
    /\ Fresh
    /\ prevSaved = FALSE
    /\ prev_current = EmptySets
    /\ market_cap = 0
    /\ cat_id = NoCat
    /\ arg = <<>>
    /\ result = <<>>

\* line 303
LoadHistory ==
    /\ pc = "load"
    /\ previous_coins' = load_coin_history(history)
    /\ pc' = "binance"
    /\ UNCHANGED <<history, usdt_perps, cg_data, cmc_data, merged_data, all_coins_to_process,
                   idx, attempt, requests, last_response, returned, current_category_coins,
                   new_coins_by_category, final_category_data, nwrites, prevSaved,
                   prev_current, market_cap, cat_id, arg, result>>

\* the locals are dropped
Reset ==
    /\ previous_coins' = EmptyDict
    /\ usdt_perps' = <<>>
    /\ cg_data' = EmptyDict
    /\ cmc_data' = EmptyDict
    /\ merged_data' = EmptyDict
    /\ all_coins_to_process' = <<>>
    /\ idx' = 1
    /\ attempt' = 0
    /\ requests' = 0
    /\ last_response' = NoResponse
    /\ returned' = <<>>
    /\ current_category_coins' = EmptySets
    /\ new_coins_by_category' = EmptySets
    /\ final_category_data' = EmptyLists
    /\ nwrites' = 0

\* the process ends: every local is gone, the file stays
Ends(how) ==
    /\ pc' = how
    /\ Reset
    /\ UNCHANGED <<history, prevSaved, prev_current, market_cap, cat_id, arg, result>>

\* lines 310-329: the ticker fetch raises (nothing catches it), or usdt_perps is built
FetchBinance ==
    /\ pc = "binance"
    /\ \/ Ends("crashed")
       \/ \E binance_data \in Feeds :
            /\ usdt_perps' = BuildPerps(binance_data, <<>>)
            /\ pc' = "coingecko"
            /\ UNCHANGED <<history, previous_coins, cg_data, cmc_data, merged_data,
                           all_coins_to_process, idx, attempt, requests, last_response, returned,
                           current_category_coins, new_coins_by_category,
                           final_category_data, nwrites, prevSaved, prev_current,
                           market_cap, cat_id, arg, result>>

\* line 335: the pages that came through, keyed by symbol
FetchCoinGecko ==
    /\ pc = "coingecko"
    /\ \E all_coins \in ListingsA : cg_data' = BySymbol(all_coins, EmptyDict)
    /\ pc' = "coinmarketcap"
    /\ UNCHANGED <<history, previous_coins, usdt_perps, cmc_data, merged_data,
                   all_coins_to_process, idx, attempt, requests, last_response, returned,
                   current_category_coins, new_coins_by_category, final_category_data,
                   nwrites, prevSaved, prev_current, market_cap, cat_id, arg, result>>

\* line 336: {} without a key, on 401, 429 or any exception; else the listing by symbol
FetchCoinMarketCap ==
    /\ pc = "coinmarketcap"
    /\ \E coins \in ListingsB : cmc_data' = BySymbol(coins, EmptyDict)
    /\ pc' = "merge"
    /\ UNCHANGED <<history, previous_coins, usdt_perps, cg_data, merged_data,
                   all_coins_to_process, idx, attempt, requests, last_response, returned,
                   current_category_coins, new_coins_by_category, final_category_data,
                   nwrites, prevSaved, prev_current, market_cap, cat_id, arg, result>>

\* line 340
Merge ==
    /\ pc = "merge"
    /\ merged_data' = merge_market_data(cg_data, cmc_data)
    /\ pc' = "categorize"
    /\ UNCHANGED <<history, previous_coins, usdt_perps, cg_data, cmc_data,
                   all_coins_to_process, idx, attempt, requests, last_response, returned,
                   current_category_coins, new_coins_by_category, final_category_data,
                   nwrites, prevSaved, prev_current, market_cap, cat_id, arg, result>>

\* lines 344-388; the dicts read here for the last time are dropped
Categorize ==
    /\ pc = "categorize"
    /\ all_coins_to_process' = Flatten(category_coins(usdt_perps, merged_data), 1)
    /\ pc' = IF Len(all_coins_to_process') = 0 THEN "detect" ELSE "q4"
    /\ usdt_perps' = <<>>
    /\ cg_data' = EmptyDict
    /\ cmc_data' = EmptyDict
    /\ merged_data' = EmptyDict
    /\ UNCHANGED <<history, previous_coins, idx, attempt, requests, last_response, returned,
                   current_category_coins, new_coins_by_category, final_category_data,
                   nwrites, prevSaved, prev_current, market_cap, cat_id, arg, result>>

\* fetch_q4_low returns res to line 397
Q4Return(res) ==
    /\ returned' = <<res>>
    /\ UNCHANGED <<attempt, all_coins_to_process, idx, pc>>

\* fetch_q4_low, lines 115-139: one requests.get of the call for coin idx, and what
\* follows from its response
Q4Request ==
    /\ pc = "q4"
    /\ returned = <<>>
    /\ \E response \in Responses :
        IF ~Caught(response.kind, attempt)
        THEN Ends("crashed")
        ELSE /\ requests' = requests + 1
             /\ last_response' = [kind |-> response.kind, candles |-> Len(response.data)]
             /\ IF ReturnsAtOnce(response.kind)
                THEN Q4Return(ParseLow(response.data))
                ELSE IF MoreAttempts(attempt)
                     THEN /\ attempt' = attempt + 1
                          /\ UNCHANGED <<returned, all_coins_to_process, idx, pc>>
                     ELSE Q4Return([low_price |-> None, low_date |-> None])
             /\ UNCHANGED <<history, previous_coins, usdt_perps, cg_data, cmc_data,
                            merged_data, current_category_coins, new_coins_by_category,
                            final_category_data, nwrites, prevSaved, prev_current,
                            market_cap, cat_id, arg, result>>

\* a plausible slip: progress is persisted after every instrument
NoSaveInLoopMutant ==
    /\ nwrites' = nwrites + 1
    /\ history' = SavedFile(history,
            CurrentCategoryCoins(SubSeq(all_coins_to_process, 1, idx)))

\* lines 390-410: the loop body does not touch the history file
NoSaveInLoop == UNCHANGED <<history, nwrites>>

\* main, lines 397-410: the returned pair is stored on the coin and the loop moves on
Q4Store ==
    /\ pc = "q4"
    /\ returned # <<>>
    /\ all_coins_to_process' =
          [all_coins_to_process EXCEPT ![idx] = WithLow(all_coins_to_process[idx], returned[1])]
    /\ idx' = idx + 1
    /\ attempt' = 0
    /\ requests' = 0
    /\ last_response' = NoResponse
    /\ returned' = <<>>
    /\ pc' = IF idx = Len(all_coins_to_process) THEN "detect" ELSE "q4"
    /\ NoSaveInLoop
    /\ UNCHANGED <<previous_coins, usdt_perps, cg_data, cmc_data, merged_data,
                   current_category_coins, new_coins_by_category, final_category_data,
                   prevSaved, prev_current, market_cap, cat_id, arg, result>>

\* lines 415-438
DetectNewCoins ==
    /\ pc = "detect"
    /\ current_category_coins' = CurrentCategoryCoins(all_coins_to_process)
    /\ new_coins_by_category' = NewCoinsByCategory(all_coins_to_process, previous_coins)
    /\ final_category_data' = FinalCategoryData(all_coins_to_process, previous_coins)
    /\ pc' = "save"
    /\ UNCHANGED <<history, previous_coins, usdt_perps, cg_data, cmc_data, merged_data,
                   all_coins_to_process, idx, attempt, requests, last_response, returned,
                   nwrites, prevSaved, prev_current, market_cap, cat_id, arg, result>>

\* line 441, save_coin_history: open() raises and the file is as it was; or the file is
\* opened (truncated) and the dump goes through, or raises part-way
SaveHistory ==
    /\ pc = "save"
    /\ \/ UNCHANGED <<history, nwrites>>
       \/ /\ nwrites' = nwrites + 1
          /\ history' \in {SavedFile(history, current_category_coins), Corrupt}
    /\ pc' = "report"
    /\ UNCHANGED <<previous_coins, usdt_perps, cg_data, cmc_data, merged_data,
                   all_coins_to_process, idx, attempt, requests, last_response, returned,
                   current_category_coins, new_coins_by_category, final_category_data,
                   prevSaved, prev_current, market_cap, cat_id, arg, result>>

\* lines 443-541: the summary, the HTML splice (its errors are caught), the return
Report ==
    /\ pc = "report"
    /\ pc' = "done"
    /\ UNCHANGED <<history, previous_coins, usdt_perps, cg_data, cmc_data, merged_data,
                   all_coins_to_process, idx, attempt, requests, last_response, returned,
                   current_category_coins, new_coins_by_category, final_category_data,
                   nwrites, prevSaved, prev_current, market_cap, cat_id, arg, result>>

Running == pc \in {"load", "binance", "coingecko", "coinmarketcap", "merge",
                   "categorize", "q4", "detect", "save", "report"}

\* the process is killed between two steps
Interrupt ==
    /\ Running
    /\ pc' = "interrupted"
    /\ Reset
    /\ UNCHANGED <<history, prevSaved, prev_current, market_cap, cat_id, arg, result>>

SaveSucceeded == nwrites = 1 /\ history.kind = "categories"

\* the program is started again
NextRun ==
    /\ pc \in {"done", "crashed", "interrupted"}
    /\ pc' = "load"
    /\ Reset
    /\ prevSaved' = (pc = "done" /\ SaveSucceeded)
    /\ prev_current' = IF pc = "done" /\ SaveSucceeded THEN current_category_coins
                       ELSE EmptySets
    /\ UNCHANGED <<history, market_cap, cat_id, arg, result>>

Next ==
    \/ LoadHistory
    \/ FetchBinance
    \/ FetchCoinGecko
    \/ FetchCoinMarketCap
    \/ Merge
    \/ Categorize
    \/ Q4Request
    \/ Q4Store
    \/ DetectNewCoins
    \/ SaveHistory
    \/ Report
    \/ Interrupt
    \/ NextRun

Spec == Init /\ [][Next]_vars

\* a process that is not killed executes its next statement: the steps of the
\* historical-low loop and of the tail of main() are taken when they can be
FairSpec ==
    /\ Spec
    /\ WF_vars(Q4Request)
    /\ WF_vars(Q4Store)
    /\ WF_vars(DetectNewCoins)
    /\ WF_vars(SaveHistory)
    /\ WF_vars(Report)

---------------------------------------------------------------------------
(* merge_market_data on every pair of one-symbol inputs *)
MaxFieldValue == 1

FieldValues == {None} \cup {Some(v) : v \in 0..MaxFieldValue}
MergeRecords == [Fields -> FieldValues]
MergeInputs == {EmptyDict} \cup {[s \in {SymF} |-> r] : r \in MergeRecords}

InitMerge ==
    /\ pc = "merge"
    /\ history = NoFile
    /\ previous_coins = EmptyDict
    /\ usdt_perps = <<>>
    /\ cg_data \in MergeInputs
    /\ cmc_data \in MergeInputs
    /\ merged_data = EmptyDict
    /\ all_coins_to_process = <<>>
    /\ idx = 1
    /\ attempt = 0
    /\ requests = 0
    /\ last_response = NoResponse
    /\ returned = <<>>
    /\ current_category_coins = EmptySets
    /\ new_coins_by_category = EmptySets
    /\ final_category_data = EmptyLists
    /\ nwrites = 0
    /\ prevSaved = FALSE
    /\ prev_current = EmptySets
    /\ market_cap = 0
    /\ cat_id = NoCat
    /\ arg = <<>>
    /\ result = <<>>

SpecMerge == InitMerge /\ [][Merge]_vars

---------------------------------------------------------------------------
(* categorize_coin on the values around every boundary *)
TierDelta == 3

Boundaries == {MCAP_CATEGORIES[k].min : k \in DOMAIN MCAP_CATEGORIES}
McapProbes ==
    {b + d : b \in Boundaries, d \in (0 - TierDelta)..TierDelta}
    \cup {0, 2000 * M, 2147483647}

InitTier ==
    /\ pc = "tier"
    /\ history = NoFile
    /\ Fresh
    /\ prevSaved = FALSE
    /\ prev_current = EmptySets
    /\ market_cap \in McapProbes
    /\ cat_id = NoCat
    /\ arg = <<>>
    /\ result = <<>>

\* line 369
CategorizeCoin ==
    /\ pc = "tier"
    /\ cat_id' = categorize_coin(market_cap)
    /\ pc' = "tiered"
    /\ UNCHANGED <<history, previous_coins, usdt_perps, cg_data, cmc_data, merged_data,
                   all_coins_to_process, idx, attempt, requests, last_response, returned,
                   current_category_coins, new_coins_by_category, final_category_data,
                   nwrites, prevSaved, prev_current, market_cap, arg, result>>

SpecTier == InitTier /\ [][CategorizeCoin]_vars

---------------------------------------------------------------------------
(* One run from the merge on, with what the upstreams sent kept in arg *)

\* the file an earlier run left: the 1000-prefixed contract in the lowest tier, the
\* other contract in the third
EarlierFile ==
    SavedFile(NoFile, [EmptySets EXCEPT !["micro"] = {Sym1000F}, !["low"] = {SymB}])

InitScreen ==
    /\ pc = "merge"
    /\ history = EarlierFile
    /\ previous_coins = load_coin_history(history)
    /\ usdt_perps \in {BuildPerps(binance_data, <<>>) : binance_data \in Feeds}
    /\ cg_data \in {BySymbol(coins, EmptyDict) : coins \in ListingsA}
    /\ cmc_data \in {BySymbol(coins, EmptyDict) : coins \in ListingsB}
    /\ merged_data = EmptyDict
    /\ all_coins_to_process = <<>>
    /\ idx = 1
    /\ attempt = 0
    /\ requests = 0
    /\ last_response = NoResponse
    /\ returned = <<>>
    /\ current_category_coins = EmptySets
    /\ new_coins_by_category = EmptySets
    /\ final_category_data = EmptyLists
    /\ nwrites = 0
    /\ prevSaved = TRUE
    /\ prev_current = [EmptySets EXCEPT !["micro"] = {Sym1000F}, !["low"] = {SymB}]
    /\ market_cap = 0
    /\ cat_id = NoCat
    /\ arg = [usdt_perps |-> usdt_perps, cg_data |-> cg_data, cmc_data |-> cmc_data]
    /\ result = <<>>

NextScreen ==
    \/ Merge
    \/ Categorize
    \/ Q4Request
    \/ Q4Store
    \/ DetectNewCoins
    \/ SaveHistory
    \/ Report

SpecScreen == InitScreen /\ [][NextScreen]_vars

---------------------------------------------------------------------------
(* The helpers of the run, each applied once to arguments drawn from a bounded set *)

\* nothing of a run exists; the helper at p is about to be applied to arg
Called(p) ==
    /\ pc = p
    /\ history = NoFile
    /\ Fresh
    /\ prevSaved = FALSE
    /\ prev_current = EmptySets
    /\ market_cap = 0
    /\ cat_id = NoCat
    /\ result = <<>>

\* the helper returns v
Returns(p, v) ==
    /\ pc' = p
    /\ result' = v
    /\ UNCHANGED <<history, previous_coins, usdt_perps, cg_data, cmc_data, merged_data,
                   all_coins_to_process, idx, attempt, requests, last_response, returned,
                   current_category_coins, new_coins_by_category, final_category_data,
                   nwrites, prevSaved, prev_current, market_cap, cat_id, arg>>

\* Deduplication of one provider's listing: the records of two symbols, one of them in
\* both cases, each record marked with its place in the listing
MaxDup == 3
MaxMcap == 2

DupSymbols == {<<"f">>, SymF, SymB}
McapValues == {None} \cup {Some(v) : v \in 0..MaxMcap}
\* the listing of the (symbol, market cap) pairs raw
DupListing(raw) ==
    [k \in DOMAIN raw |-> [symbol |-> raw[k][1], rec |-> Rec(Some(k), raw[k][2], None, None)]]

InitDedup ==
    /\ Called("dedup")
    /\ \E n \in 0..MaxDup : \E raw \in [1..n -> DupSymbols \X McapValues] : arg = DupListing(raw)

\* lines 173-190, 235-252
Dedup == pc = "dedup" /\ Returns("deduped", BySymbol(arg, EmptyDict))

SpecDedup == InitDedup /\ [][Dedup]_vars

\* The low of a klines payload
MaxKlines == 4

LowValues == {3, 5, 7}
KlinePayloads ==
    {[k \in DOMAIN lows |-> Candle(k, lows[k])] : lows \in SeqsUpTo(LowValues, MaxKlines)}

InitLow == Called("klines") /\ arg \in KlinePayloads

\* lines 124-134
Q4Low == pc = "klines" /\ Returns("parsed", ParseLow(arg))

SpecLow == InitLow /\ [][Q4Low]_vars

\* The bounce of a coin from the pair fetch_q4_low returned
MaxPrice == 10
MaxLow == 5

BounceCoin(price) ==
    [symbol |-> SymB, price |-> price, market_cap_m |-> 150, fdv_m |-> 200,
     change_24h |-> 0, change_30d |-> 0, _category |-> "low"]
Q4Pairs ==
    {[low_price |-> None, low_date |-> None]}
    \cup {[low_price |-> Some(low), low_date |-> Some(1)] : low \in (0 - MaxLow)..MaxLow}

InitBounce ==
    /\ Called("bounce")
    /\ arg \in {[coin |-> BounceCoin(price), res |-> res] : price \in 0..MaxPrice, res \in Q4Pairs}

\* lines 397-407
Bounce == pc = "bounce" /\ Returns("bounced", WithLow(arg.coin, arg.res))

SpecBounce == InitBounce /\ [][Bounce]_vars

\* The record of a contract that has a reference record
MaxChange == 3

ChangeInputs ==
    {[binance_info |-> [symbol |-> SymB, lookup_symbol |-> SymB, price |-> 10,
                        change_24h_binance |-> c],
      market_info |-> Rec(Some(200 * M), Some(150 * M), r, Some(0))] :
        c \in (0 - MaxChange)..MaxChange,
        r \in {None} \cup {Some(v) : v \in (0 - MaxChange)..MaxChange}}

InitChange == Called("coin_data") /\ arg \in ChangeInputs

\* lines 351-366
BuildCoinData == pc = "coin_data" /\ Returns("built", CoinData(arg.binance_info, arg.market_info))

SpecChange == InitChange /\ [][BuildCoinData]_vars

---------------------------------------------------------------------------
(* Properties *)

\* the run has assembled its per-tier output
Detected == pc \in {"save", "report", "done"}
\* every coin record of the per-tier output
FinalCoins ==
    UNION {{final_category_data[cat][k] : k \in DOMAIN final_category_data[cat]} : cat \in CatIds}
\* what the file on disk holds for a tier
Persisted(cat) ==
    IF history.kind = "categories" /\ cat \in DOMAIN history.categories
    THEN {history.categories[cat][k] : k \in DOMAIN history.categories[cat]}
    ELSE {}
NonePair == [low_price |-> None, low_date |-> None]

\* C1 as stated: a run that loaded an empty history flags no instrument as new.
C1_FirstRunFlagsNothing ==
    (Detected /\ previous_coins = EmptyDict) =>
        /\ \A cat \in CatIds : new_coins_by_category[cat] = {}
        /\ \A coin \in FinalCoins : ~coin.is_new

\* C1 amended: a run that loaded an empty history flags every screened instrument
\* as new: each has is_new = true, and new_coins_by_category equals the run's own
\* set for every tier.
C1_FirstRunFlagsAll ==
    (Detected /\ previous_coins = EmptyDict) =>
        /\ \A cat \in CatIds : new_coins_by_category[cat] = current_category_coins[cat]
        /\ \A coin \in FinalCoins : coin.is_new

C1_Witness ==
    /\ pc = "save"
    /\ history.kind = "absent"
    /\ previous_coins = EmptyDict
    /\ \E cat \in CatIds : new_coins_by_category[cat] # {}

\* C2: for a symbol both sources hold, each of the four merged fields is the first
\* source's value when that is non-null, else the second source's value; a merged
\* field is non-null only if one of the sources reported it non-null.
C2_AsymmetricOr ==
    pc = "categorize" =>
        \A s \in DOMAIN cg_data \cap DOMAIN cmc_data : \A f \in Fields :
            /\ cg_data[s][f] # None => merged_data[s][f] = cg_data[s][f]
            /\ cg_data[s][f] = None => merged_data[s][f] = cmc_data[s][f]
            /\ merged_data[s][f] # None => (cg_data[s][f] # None \/ cmc_data[s][f] # None)

C2_Witness ==
    /\ pc = "categorize"
    /\ SymF \in DOMAIN cg_data \cap DOMAIN cmc_data
    /\ cg_data[SymF].market_cap = Some(0)
    /\ cmc_data[SymF].market_cap = Some(1)
    /\ merged_data[SymF].market_cap = Some(0)
    /\ cg_data[SymF].fdv = None
    /\ merged_data[SymF].fdv = Some(1)

\* C3: for every tier the symbols flagged new are the run's symbols of that tier
\* minus the symbols the file holds for that tier, which after a saved run are that
\* run's symbols of the tier; the is_new flag of each output record says the same.
C3_NoveltyIsSetDifference ==
    pc = "save" =>
        \A cat \in CatIds :
            /\ new_coins_by_category[cat] = current_category_coins[cat] \ Persisted(cat)
            /\ prevSaved => Persisted(cat) = prev_current[cat]
            /\ \A k \in DOMAIN final_category_data[cat] :
                  final_category_data[cat][k].is_new
                      = (final_category_data[cat][k].symbol \notin Persisted(cat))

\* a symbol saved under one tier by the previous run is now in another and is
\* flagged there, while a symbol saved under its present tier is not
C3_Witness ==
    /\ pc = "save"
    /\ prevSaved
    /\ \E a, b \in CatIds :
          /\ a # b
          /\ \E sym \in current_category_coins[a] :
                sym \in prev_current[b] /\ sym \in new_coins_by_category[a]
    /\ \E a \in CatIds : \E sym \in current_category_coins[a] :
          sym \in prev_current[a] /\ sym \notin new_coins_by_category[a]

\* C4: when the run before completed and saved, and this run puts the same symbols
\* in every tier as that run did, this run flags nothing as new.
C4_SameSetsNothingNew ==
    (Detected /\ prevSaved /\ current_category_coins = prev_current) =>
        /\ \A cat \in CatIds : new_coins_by_category[cat] = {}
        /\ \A coin \in FinalCoins : ~coin.is_new

C4_Witness ==
    /\ pc = "done"
    /\ prevSaved
    /\ current_category_coins = prev_current
    /\ \E cat \in CatIds : Cardinality(current_category_coins[cat]) = 2
    /\ \A coin \in FinalCoins : ~coin.is_new

\* C5: after a run whose save went through, the file holds for every tier exactly
\* the run's symbols of that tier, whatever it held before.
C5_SaveOverwrites ==
    (pc \in {"report", "done"} /\ SaveSucceeded) =>
        /\ DOMAIN history.categories = CatIds
        /\ \A cat \in CatIds : Persisted(cat) = current_category_coins[cat]

\* a symbol the previous run saved for a tier, absent from that tier in this run, is
\* gone from the file
C5_Witness ==
    /\ pc = "done"
    /\ SaveSucceeded
    /\ prevSaved
    /\ \E cat \in CatIds : \E sym \in prev_current[cat] :
          sym \notin current_category_coins[cat] /\ sym \notin Persisted(cat)

\* the run's admitted instruments all carry the three historical-low fields
AllLowsSet ==
    \A k \in DOMAIN all_coins_to_process :
        {"q4_low", "q4_low_date", "bounce_from_low"} \subseteq DOMAIN all_coins_to_process[k]

\* C6: a run opens the history file for writing at most once, and the file changes
\* only in the save step, when every admitted instrument has its historical-low
\* fields and novelty is computed; every other step, and a run that ends before the
\* save step, leaves the file as it was.
C6_WriteOnceAtEnd ==
    /\ [](nwrites <= 1)
    /\ [][history' # history =>
            /\ pc = "save" /\ pc' = "report"
            /\ nwrites = 0
            /\ AllLowsSet
            /\ idx = Len(all_coins_to_process) + 1
            /\ current_category_coins = CurrentCategoryCoins(all_coins_to_process)
            /\ new_coins_by_category =
                  NewCoinsByCategory(all_coins_to_process, previous_coins)]_vars
    /\ [][pc' \in {"crashed", "interrupted"} => history' = history]_vars

\* a run was interrupted and the file still holds what the run before saved
C6_Witness ==
    /\ pc = "interrupted"
    /\ prevSaved
    /\ \E cat \in CatIds : prev_current[cat] # {}
    /\ \A cat \in CatIds : Persisted(cat) = prev_current[cat]

\* C7: a fetch_q4_low call issues at most 3 requests; a 429 and an exception each
\* use up one attempt; every request either ends the call or moves to the next
\* attempt, of which there are 3; a call whose 3 requests all met a 429 or an
\* exception returns (None, None); and every call that is running returns (unless
\* the process is killed).
C7_BoundedRetries ==
    /\ ((pc = "q4" /\ returned = <<>>) ~> (returned # <<>> \/ pc = "interrupted"))
    /\ [](/\ requests <= retries
          /\ attempt < retries
          /\ (returned = <<>> => attempt = requests)
          /\ (returned # <<>> /\ requests = retries
                /\ last_response.kind \in {"429", "exception"}) => returned = <<NonePair>>)
    /\ [][(pc = "q4" /\ requests' = requests + 1) =>
            /\ pc' = "q4"
            /\ \/ returned' # <<>> /\ attempt' = attempt
               \/ returned' = <<>> /\ attempt' = attempt + 1
            /\ last_response'.kind \in {"429", "exception"} =>
                  \/ attempt' = attempt + 1
                  \/ attempt = retries - 1 /\ returned' = <<NonePair>>]_vars

C7_Witness ==
    /\ pc = "q4"
    /\ requests = retries
    /\ last_response.kind = "429"
    /\ returned = <<NonePair>>

\* the response on which fetch_q4_low gives up: a status other than 200 and 429, or
\* a 200 with no candles
Abandoned ==
    \/ last_response.kind = "status"
    \/ last_response.kind = "ok" /\ last_response.candles = 0

\* C8: on a status other than 200 and 429, or an empty 200 payload, the call has
\* returned (None, None) and no further request is issued for that instrument.
C8_AbandonAtOnce ==
    /\ [](Abandoned => returned = <<NonePair>>)
    /\ [][Abandoned => requests' # requests + 1]_vars

\* the first request met such a response: two attempts were left
C8_Witness ==
    /\ pc = "q4"
    /\ last_response.kind = "status"
    /\ requests = 1
    /\ attempt = 0
    /\ returned = <<NonePair>>

SymbolsOf(list) == {list[k].symbol : k \in DOMAIN list}

\* C9: no response to a historical-low request ends the run: from the loop the run
\* goes on to the next request, the next instrument or the detection step (or is
\* killed from outside); every response can be taken at every request; after the
\* loop every admitted instrument has q4_low, q4_low_date and bounce_from_low set,
\* all three null or all three not; and the per-tier output holds exactly the
\* admitted instruments; and a run that is in the loop goes on to its save step (unless
\* the process is killed).
C9_BatchSurvivesFailures ==
    /\ (pc = "q4" ~> (pc = "report" \/ pc = "interrupted"))
    /\ [][pc = "q4" => pc' \in {"q4", "detect", "interrupted"}]_vars
    /\ []((pc = "q4" /\ returned = <<>>) =>
            \A response \in Responses : Caught(response.kind, attempt))
    /\ [](pc \in {"detect", "save", "report", "done"} =>
            /\ AllLowsSet
            /\ \A k \in DOMAIN all_coins_to_process :
                  LET coin == all_coins_to_process[k]
                  IN  /\ (coin.q4_low = None) = (coin.q4_low_date = None)
                      /\ (coin.q4_low = None) = (coin.bounce_from_low = None))
    /\ [](Detected =>
            \A cat \in CatIds :
                SymbolsOf(final_category_data[cat])
                    = SymbolsOf(CoinsOf(all_coins_to_process, cat)))
    /\ [][pc = "detect" => pc' \in {"save", "interrupted"}]_vars

\* a run came to its end with one instrument's low unknown and another's known
C9_Witness ==
    /\ pc = "done"
    /\ nwrites = 1
    /\ \E c1, c2 \in FinalCoins : c1.q4_low = None /\ c2.q4_low # None

\* the tiers whose interval (min, max] holds mc
TiersHolding(mc) ==
    {k \in DOMAIN MCAP_CATEGORIES :
        /\ MCAP_CATEGORIES[k].min < mc
        /\ (MCAP_CATEGORIES[k].max = Inf \/ mc <= MCAP_CATEGORIES[k].max[1])}

\* C10: categorize_coin gives a value the one tier with min < value <= max, or none
\* when there is no such tier, and there is never more than one; 50,000,000 goes to
\* micro; a shared boundary goes to the tier it is the upper bound of; a value
\* above 1,500,000,000 goes to the top tier.
C10_OneTierPerValue ==
    pc = "tiered" =>
        /\ Cardinality(TiersHolding(market_cap)) <= 1
        /\ TiersHolding(market_cap) = {} => cat_id = NoCat
        /\ \A k \in TiersHolding(market_cap) : cat_id = MCAP_CATEGORIES[k].id
        /\ market_cap = 50 * M => cat_id = "micro"
        /\ \A k \in DOMAIN MCAP_CATEGORIES :
              MCAP_CATEGORIES[k].max = Some(market_cap) => cat_id = MCAP_CATEGORIES[k].id
        /\ market_cap > 1500 * M => cat_id = "mega"

C10_Witness ==
    /\ pc = "tiered"
    /\ market_cap = 50 * M
    /\ cat_id = "micro"


---------------------------------------------------------------------------
\* the merged reference data of this run
Merged == merge_market_data(arg.cg_data, arg.cmc_data)
\* the contract has no merged reference record, or one whose market cap (None counting
\* as zero) is at or below the lowest tier's floor
BelowFloor(binance_info) ==
    \/ binance_info.lookup_symbol \notin DOMAIN Merged
    \/ OrZero(Merged[binance_info.lookup_symbol].market_cap) <= 25 * M
\* the symbol appears somewhere in what the run produced
Placed(symbol) ==
    \/ symbol \in SymbolsOf(all_coins_to_process)
    \/ \E c \in FinalCoins : c.symbol = symbol
    \/ \E cat \in CatIds : symbol \in new_coins_by_category[cat]
    \/ \E cat \in CatIds : symbol \in current_category_coins[cat]
    \/ pc \in {"report", "done"} /\ SaveSucceeded /\ \E cat \in CatIds : symbol \in Persisted(cat)

\* C11: a contract whose market cap is at or below 25,000,000 (exactly 25,000,000 and
\* None included), or that has no merged reference record, is in no tier bucket: it is
\* absent from the per-tier output, is never flagged new, and its symbol is not in the
\* history the run writes.
C11_BelowFloorInNoTier ==
    pc \notin {"merge", "categorize"} =>
        \A k \in DOMAIN arg.usdt_perps :
            BelowFloor(arg.usdt_perps[k]) => ~Placed(arg.usdt_perps[k].symbol)

\* the run is over and has written its history; the 1000-prefixed contract, held in the
\* lowest tier by the earlier file, now has a market cap of exactly 25,000,000
C11_Witness ==
    /\ pc = "done"
    /\ SaveSucceeded
    /\ \E k \in DOMAIN arg.usdt_perps :
            /\ arg.usdt_perps[k].symbol = Sym1000F
            /\ arg.usdt_perps[k].lookup_symbol \in DOMAIN Merged
            /\ Merged[arg.usdt_perps[k].lookup_symbol].market_cap = Some(25 * M)
    /\ Sym1000F \in previous_coins["micro"]
    /\ Sym1000F \notin Persisted("micro")
    /\ \E k \in DOMAIN arg.usdt_perps : ~BelowFloor(arg.usdt_perps[k])

---------------------------------------------------------------------------
\* the places of the listing whose upper-cased symbol is symbol
PlacesOf(symbol) == {k \in DOMAIN arg : Upper(arg[k].symbol) = symbol}
\* the first place, among those of the symbol, that holds its highest market cap
FirstBest(symbol) ==
    CHOOSE k \in PlacesOf(symbol) :
        /\ \A j \in PlacesOf(symbol) :
                OrZero(arg[j].rec.market_cap) <= OrZero(arg[k].rec.market_cap)
        /\ \A j \in PlacesOf(symbol) :
                OrZero(arg[j].rec.market_cap) = OrZero(arg[k].rec.market_cap) => k <= j

\* C12: within one provider's listing, the record kept for an upper-cased symbol is the
\* one of strictly highest market cap, and among records of equal market cap (None
\* counting as zero) the first seen, whatever follows it.
C12_HighestThenFirstSeen ==
    pc = "deduped" =>
        /\ DOMAIN result = {Upper(arg[k].symbol) : k \in DOMAIN arg}
        /\ \A symbol \in DOMAIN result : result[symbol] = arg[FirstBest(symbol)].rec

\* three records of one symbol, in both cases, with market caps None, 0 and None: the
\* first is kept
C12_Witness ==
    /\ pc = "deduped"
    /\ Len(arg) = 3
    /\ arg[1].symbol = <<"f">> /\ arg[2].symbol = SymF /\ arg[3].symbol = <<"f">>
    /\ arg[1].rec.market_cap = None
    /\ arg[2].rec.market_cap = Some(0)
    /\ arg[3].rec.market_cap = None
    /\ result[SymF] = arg[1].rec
    /\ result[SymF] # arg[2].rec

---------------------------------------------------------------------------
\* C13: for a symbol in both sources, merging in either order gives the same set of
\* non-None fields; the two results differ in a field only where both sources hold a
\* value and the values differ, and there each result holds its base's value.
C13_PresenceCommutes ==
    pc = "categorize" =>
        \A symbol \in DOMAIN cg_data \cap DOMAIN cmc_data :
            LET ab == merged_data[symbol]
                ba == merge_market_data(cmc_data, cg_data)[symbol]
            IN  \A f \in Fields :
                    /\ IsNone(ab[f]) <=> IsNone(ba[f])
                    /\ ab[f] # ba[f] =>
                          /\ ~IsNone(cg_data[symbol][f])
                          /\ ~IsNone(cmc_data[symbol][f])
                          /\ ab[f] = cg_data[symbol][f]
                          /\ ba[f] = cmc_data[symbol][f]

\* one field only the second source holds, one only the first holds, one on which
\* they conflict
C13_Witness ==
    /\ pc = "categorize"
    /\ SymF \in DOMAIN cg_data \cap DOMAIN cmc_data
    /\ IsNone(cg_data[SymF].fdv) /\ cmc_data[SymF].fdv = Some(1)
    /\ cg_data[SymF].market_cap = Some(1) /\ IsNone(cmc_data[SymF].market_cap)
    /\ cg_data[SymF].price_change_24h = Some(0) /\ cmc_data[SymF].price_change_24h = Some(1)
    /\ merged_data[SymF].fdv = Some(1)
    /\ merged_data[SymF].price_change_24h = Some(0)

---------------------------------------------------------------------------
\* C14: the low returned is the minimum of the candles' lows, and its date is the day
\* of the first candle, in time order, that holds it (lows 5, 3, 3, 7: 3, on the day of
\* the second candle).
C14_FirstMinimum ==
    pc = "parsed" /\ Len(arg) > 0 =>
        \E k \in DOMAIN arg :
            /\ result.low_price = Some(arg[k].low)
            /\ \A j \in DOMAIN arg : arg[k].low <= arg[j].low
            /\ \A j \in 1..(k - 1) : arg[j].low # arg[k].low
            /\ result.low_date = Some(k)

C14_Witness ==
    /\ pc = "parsed"
    /\ [k \in DOMAIN arg |-> arg[k].low] = <<5, 3, 3, 7>>
    /\ result = [low_price |-> Some(3), low_date |-> Some(2)]

---------------------------------------------------------------------------
\* C15: with a known, strictly positive low, q4_low is the low and the bounce is
\* (price - low) / low * 100, here in whole percent (price 10, low 5: 100); with a low
\* that is unknown, zero or negative, q4_low, q4_low_date and bounce_from_low are None.
C15_BounceOnlyFromPositiveLow ==
    pc = "bounced" =>
        LET low == arg.res.low_price
            price == arg.coin.price
        IN  IF ~IsNone(low) /\ low[1] > 0
            THEN /\ result.q4_low = low
                 /\ result.q4_low_date = arg.res.low_date
                 /\ ~IsNone(result.bounce_from_low)
                 /\ result.bounce_from_low[1] * low[1] <= (price - low[1]) * 100
                 /\ (price - low[1]) * 100 < (result.bounce_from_low[1] + 1) * low[1]
                 /\ price = 10 /\ low[1] = 5 => result.bounce_from_low = Some(100)
            ELSE /\ IsNone(result.q4_low)
                 /\ IsNone(result.q4_low_date)
                 /\ IsNone(result.bounce_from_low)

C15_Witness ==
    /\ pc = "bounced"
    /\ arg.coin.price = 10
    /\ arg.res.low_price = Some(5)
    /\ result.q4_low = Some(5)
    /\ result.bounce_from_low = Some(100)

---------------------------------------------------------------------------
\* the read of the history file failed: the run goes on with an empty previous state
ReadFailureSurvived ==
    pc = "load" /\ history = Corrupt /\ pc' # "interrupted" =>
        pc' = "binance" /\ previous_coins' = EmptyDict
\* the save did not put the current sets on disk: the run goes on to its report with
\* its per-tier output
WriteFailureSurvived ==
    pc = "save" /\ pc' # "interrupted" =>
        pc' = "report" /\ final_category_data' = final_category_data
\* the save did not put the current sets on disk: the file is as it was
WriteFailureLeavesFile ==
    pc = "save" /\ pc' = "report" /\ history' # SavedFile(history, current_category_coins) =>
        history' = history

\* C16: a failure to read the history file lets the run proceed with an empty previous
\* state, and a failure to write it lets the run complete with the stored history left
\* as it was; neither ends the run early or drops its per-tier output.
C16_IoFailuresNotFatal ==
    [][ReadFailureSurvived /\ WriteFailureSurvived /\ WriteFailureLeavesFile]_vars

---------------------------------------------------------------------------
\* C17: the 24h change of the record is the exchange's value when that is not zero;
\* when it is zero, the reference value if that is neither None nor zero, else 0.
C17_ExchangeChangeFirst ==
    pc = "built" =>
        LET c == arg.binance_info.change_24h_binance
            r == arg.market_info.price_change_24h
        IN  result.change_24h =
                IF c # 0 THEN c
                ELSE IF ~IsNone(r) /\ r[1] # 0 THEN r[1]
                ELSE 0

\* the exchange reports zero and the reference value is taken
C17_Witness ==
    /\ pc = "built"
    /\ arg.binance_info.change_24h_binance = 0
    /\ arg.market_info.price_change_24h = Some(2)
    /\ result.change_24h = 2

---------------------------------------------------------------------------
\* the symbol of a 1000-prefixed contract without its prefix
Stripped(symbol) == SubSeq(symbol, 5, Len(symbol))
\* the screened records of the symbol
ScreenedAs(symbol) ==
    {all_coins_to_process[k] :
        k \in {j \in DOMAIN all_coins_to_process : all_coins_to_process[j].symbol = symbol}}
\* the tier with that label
TierLabelled(label) ==
    MCAP_CATEGORIES[CHOOSE t \in DOMAIN MCAP_CATEGORIES : MCAP_CATEGORIES[t].label = label].id
\* the exchange sent 1000F with a 24h change of 0, provider A has no F, provider B has
\* F with FDV 200M, market cap 150M and a 24h change of 3.2 (changes count in tenths)
Scenario1000 ==
    /\ \E k \in DOMAIN arg.usdt_perps :
            /\ arg.usdt_perps[k].symbol = Sym1000F
            /\ arg.usdt_perps[k].change_24h_binance = 0
    /\ SymF \notin DOMAIN arg.cg_data
    /\ SymF \in DOMAIN arg.cmc_data
    /\ arg.cmc_data[SymF].fdv = Some(200 * M)
    /\ arg.cmc_data[SymF].market_cap = Some(150 * M)
    /\ arg.cmc_data[SymF].price_change_24h = Some(32)

\* C18: a contract whose exchange symbol starts with "1000" is looked up in the merged
\* reference data under the symbol without that prefix, while the screened record, the
\* novelty sets and the written history hold the full exchange symbol; in the scenario
\* above the contract is admitted as 1000F in the "$100M-$250M" tier with a 24h change
\* of 3.2.
C18_PrefixStrippedForLookupOnly ==
    pc \notin {"merge", "categorize"} =>
        /\ \A k \in DOMAIN arg.usdt_perps :
              LET symbol == arg.usdt_perps[k].symbol
                  found == Stripped(symbol) \in DOMAIN Merged
                  cat == IF found
                         THEN categorize_coin(OrZero(Merged[Stripped(symbol)].market_cap))
                         ELSE NoCat
              IN  StartsWith(symbol, K1000) =>
                    /\ ScreenedAs(Stripped(symbol)) = {}
                    /\ ~Placed(Stripped(symbol))
                    /\ cat = NoCat => ScreenedAs(symbol) = {}
                    /\ cat # NoCat =>
                          /\ Cardinality(ScreenedAs(symbol)) = 1
                          /\ \A coin \in ScreenedAs(symbol) :
                                /\ coin._category = cat
                                /\ coin.market_cap_m =
                                      OrZero(Merged[Stripped(symbol)].market_cap) \div M
                          /\ Detected =>
                                /\ symbol \in current_category_coins[cat]
                                /\ \E c \in FinalCoins : c.symbol = symbol
                                /\ symbol \in new_coins_by_category[cat]
                                      <=> symbol \notin Get(previous_coins, cat, {})
                          /\ pc \in {"report", "done"} /\ SaveSucceeded =>
                                symbol \in Persisted(cat)
        /\ Scenario1000 =>
              \E coin \in ScreenedAs(Sym1000F) :
                  /\ coin._category = TierLabelled("$100M-$250M")
                  /\ coin.change_24h = 32
                  /\ coin.fdv_m = 200
                  /\ coin.market_cap_m = 150

\* the scenario's run is over: 1000F is in the output of the tier, is new to it, and is
\* in the file under its full symbol
C18_Witness ==
    /\ pc = "done"
    /\ SaveSucceeded
    /\ Scenario1000
    /\ \E c \in FinalCoins : c.symbol = Sym1000F /\ c.change_24h = 32 /\ c.is_new
    /\ Sym1000F \in new_coins_by_category["low"]
    /\ Sym1000F \in Persisted("low")
    /\ SymF \notin Persisted("low")
====
